---- MODULE Spec2Model ----
(***************************************************************************)
(* Track-change engine of Plex-Auto-Languages                             *)
(* (plex_auto_languages/track_changes.py): the audio and subtitle         *)
(* matchers, the episode scope resolver, TrackChanges.compute / apply and  *)
(* NewOrUpdatedTrackChanges.change_track_for_user.                         *)
(***************************************************************************)
EXTENDS Integers, Sequences, FiniteSets, TLC

VARIABLES
    \* --- one TrackChanges over a single one-part episode (SpecPart) ---
    refAudio,      \* TrackChanges._audio_stream    (a stream record or NoStream)
    refSubtitle,   \* TrackChanges._subtitle_stream (a stream record or NoStream)
    partAudio,     \* part.audioStreams()    of the target part
    partSubs,      \* part.subtitleStreams() of the target part
    curAudio,      \* id of the selected audio stream of the part, 0 = none
    curSub,        \* id of the selected subtitle stream of the part, 0 = none
    selfRef,       \* TRUE when the target part is the reference's own part
    outcome,       \* what compute saw and recorded on the part, or Pending
    \* --- the episode scope resolver (SpecScope) ---
    show,          \* show.episodes(), in the order the server returns them
    reference,     \* the reference episode
    scoped,        \* last result of get_episodes_to_update, with its arguments
    \* --- TrackChanges over the library (Spec) ---
    selected,      \* external selection state: part -> [audio, subtitle] ids
    tc,            \* the TrackChanges object, or NoTC before construction
    episodes,      \* the episode list last returned by get_episodes_to_update
    op,            \* the last call made, with its arguments
    prev,          \* the previous call and the change list it left
    \* --- NewOrUpdatedTrackChanges over two users (SpecOrch) ---
    userSelected,  \* per-user selection state: user -> part -> [audio, subtitle]
    userRef,       \* per-user reference episode
    nou,           \* the NewOrUpdatedTrackChanges object
    call           \* the last change_track_for_user call and how it ended

partVars == <<refAudio, refSubtitle, partAudio, partSubs, curAudio, curSub, selfRef, outcome>>
scopeVars == <<show, reference, scoped>>
tcVars == <<selected, tc, episodes, op, prev>>
orchVars == <<userSelected, userRef, nou, call>>
vars == <<partVars, scopeVars, tcVars, orchVars>>

-----------------------------------------------------------------------------
(* Values *)

\* Python's None for an optional string attribute (title, codec).
NoneStr == "<None>"

\* Python's None for a stream (no reference stream, no match, nothing selected).
NoStream == [id |-> 0]

Pending == [state |-> "pending"]

\* str.lower() on the titles the model uses.
Lower(s) ==
    CASE s = "English" -> "english"
      [] s = "Commentary" -> "commentary"
      [] s = "French" -> "french"
      [] s = "Director COMMENTARY" -> "director commentary"
      [] OTHER -> s

\* '"commentary" in s' for a lower-cased title s.
ContainsCommentary(s) == s \in {"commentary", "director commentary"}

\* Truth value of an optional string: None and "" are falsy.
Truthy(s) == s # NoneStr /\ s # ""

RECURSIVE MaxOf(_)
MaxOf(s) ==
    IF Len(s) = 1 THEN s[1]
    ELSE LET m == MaxOf(Tail(s)) IN IF s[1] >= m THEN s[1] ELSE m

\* list.index(v): the first position holding v.
RECURSIVE IndexFrom(_, _, _)
IndexFrom(s, v, i) == IF s[i] = v THEN i ELSE IndexFrom(s, v, i + 1)

IndexOf(s, v) == IndexFrom(s, v, 1)

-----------------------------------------------------------------------------
(* TrackChanges._match_audio_stream *)

\* all(s.title == audio_streams[0].title for s in audio_streams)
Ambiguous(audio_streams) ==
    \A i \in 1..Len(audio_streams) : audio_streams[i].title = audio_streams[1].title

\* The commentary split of the same-language candidates.
CommentaryKeep(ref, s) ==
    IF ref.title # NoneStr /\ ContainsCommentary(Lower(ref.title))
    THEN s.title # NoneStr /\ ContainsCommentary(Lower(s.title))
    ELSE s.title # NoneStr /\ ~ContainsCommentary(Lower(s.title))

AudioCandidates(ref, audio_streams) ==
    LET SameLanguage(s) == s.languageCode = ref.languageCode
        Keep(s) == CommentaryKeep(ref, s)
    IN SelectSeq(SelectSeq(audio_streams, SameLanguage), Keep)

\* The score without the points for an equal title.
AudioScoreNoTitle(ref, stream, ambiguous) ==
      (IF ref.codec = stream.codec THEN 5 ELSE 0)
    + (IF ref.audioChannelLayout = stream.audioChannelLayout THEN 3 ELSE 0)
    + (IF ambiguous
       THEN IF ref.channels < 3
            THEN (IF ref.channels < stream.channels THEN 8 ELSE 0)
            ELSE (IF ref.channels <= stream.channels THEN 1 ELSE 0)
       ELSE 0)

AudioScore(ref, stream, ambiguous) ==
      (IF ref.codec = stream.codec THEN 5 ELSE 0)
    + (IF ref.audioChannelLayout = stream.audioChannelLayout THEN 3 ELSE 0)
    + (IF ambiguous
       THEN IF ref.channels < 3
            THEN (IF ref.channels < stream.channels THEN 8 ELSE 0)
            ELSE (IF ref.channels <= stream.channels THEN 1 ELSE 0)
       ELSE 0)
    + (IF ref.title # NoneStr /\ stream.title # NoneStr /\ ref.title = stream.title
       THEN 5 ELSE 0)

match_audio_stream(ref, audio_streams) ==
    IF ref = NoStream THEN NoStream
    ELSE LET streams == AudioCandidates(ref, audio_streams)
             ambiguous == Ambiguous(audio_streams)
             scores == [i \in 1..Len(streams) |-> AudioScore(ref, streams[i], ambiguous)]
         IN IF Len(streams) = 0 THEN NoStream
            ELSE IF Len(streams) = 1 THEN streams[1]
            ELSE streams[IndexOf(scores, MaxOf(scores))]

-----------------------------------------------------------------------------
(* TrackChanges._match_subtitle_stream *)

SubtitleScore(ref, stream) ==
      (IF stream.forced = ref.forced THEN 3 ELSE 0)
    + (IF stream.hearingImpaired = ref.hearingImpaired THEN 3 ELSE 0)
    + (IF Truthy(ref.codec) /\ Truthy(stream.codec) /\ ref.codec = stream.codec
       THEN 1 ELSE 0)
    + (IF Truthy(ref.title) /\ Truthy(stream.title) /\ ref.title = stream.title
       THEN 5 ELSE 0)

\* An unstable insertion: the pair goes ahead of the entries it ties with.
RECURSIVE InsertBeforeTies(_, _)
InsertBeforeTies(sorted, x) ==
    IF sorted = <<>> THEN <<x>>
    ELSE IF sorted[1][1] > x[1]
         THEN <<sorted[1]>> \o InsertBeforeTies(Tail(sorted), x)
         ELSE <<x>> \o sorted

\* Insertion into a list sorted by descending score, after every entry whose
\* score is greater than or equal to the inserted one.
RECURSIVE InsertDesc(_, _)
InsertDesc(sorted, x) ==
    IF sorted = <<>> THEN <<x>>
    ELSE IF sorted[1][1] >= x[1]
         THEN <<sorted[1]>> \o InsertDesc(Tail(sorted), x)
         ELSE <<x>> \o sorted

\* list.sort(reverse=True, key=score): a stable sort, equal scores keep their order.
RECURSIVE SortDescFrom(_, _, _)
SortDescFrom(pairs, i, acc) ==
    IF i > Len(pairs) THEN acc
    ELSE SortDescFrom(pairs, i + 1, InsertDesc(acc, pairs[i]))

SortDesc(pairs) == SortDescFrom(pairs, 1, <<>>)

match_subtitle_stream(ref, refA, subtitle_streams) ==
    IF ref = NoStream
    THEN IF refA = NoStream THEN NoStream
         ELSE LET Forced(s) == s.languageCode = refA.languageCode /\ s.forced
                  forced_streams == SelectSeq(subtitle_streams, Forced)
              IN IF Len(forced_streams) > 0 THEN forced_streams[1] ELSE NoStream
    ELSE LET SameLanguage(s) == s.languageCode = ref.languageCode
             streams == SelectSeq(subtitle_streams, SameLanguage)
             stream_scores == [i \in 1..Len(streams) |->
                                  <<SubtitleScore(ref, streams[i]), streams[i]>>]
         IN IF Len(streams) = 0 THEN NoStream
            ELSE IF Len(streams) = 1 THEN streams[1]
            ELSE SortDesc(stream_scores)[1][2]

-----------------------------------------------------------------------------
(* TrackChanges._get_selected_streams, compute and apply *)

\* ([a for a in streams if a.selected] + [None])[0], the selection kept as an id.
SelectedStream(streams, sel) ==
    LET IsSelected(s) == s.id = sel
        hits == SelectSeq(streams, IsSelected)
    IN IF Len(hits) > 0 THEN hits[1] ELSE NoStream

Change(episode, part, stream_type, stream) ==
    [episode |-> episode, part |-> part, stream_type |-> stream_type, stream |-> stream.id]

\* The commentary check that guards a subtitle change (compute, lines 95-98).
SkipForCommentary(current_audio_stream, matching_audio_stream) ==
    /\ current_audio_stream # NoStream
    /\ Truthy(current_audio_stream.title)
    /\ ContainsCommentary(Lower(current_audio_stream.title))
    /\ matching_audio_stream = NoStream

\* The audio change recorded without comparing the ids.
AudioChangesAlways(episode, part, current_audio_stream, matching_audio_stream) ==
    IF current_audio_stream # NoStream /\ matching_audio_stream # NoStream
    THEN <<Change(episode, part, "audio", matching_audio_stream)>>
    ELSE <<>>

AudioChanges(episode, part, current_audio_stream, matching_audio_stream) ==
    IF /\ current_audio_stream # NoStream
       /\ matching_audio_stream # NoStream
       /\ matching_audio_stream.id # current_audio_stream.id
    THEN <<Change(episode, part, "audio", matching_audio_stream)>>
    ELSE <<>>

SubtitleRemoval(episode, part, current_subtitle_stream, matching_subtitle_stream) ==
    IF current_subtitle_stream # NoStream /\ matching_subtitle_stream = NoStream
    THEN <<Change(episode, part, "subtitle", NoStream)>>
    ELSE <<>>

SubtitleChange(episode, part, curA, matchA, curS, matchS) ==
    IF /\ matchS # NoStream
       /\ (curS = NoStream \/ matchS.id # curS.id)
       /\ ~SkipForCommentary(curA, matchA)
    THEN <<Change(episode, part, "subtitle", matchS)>>
    ELSE <<>>

\* One iteration of the loop over episode.iterParts() (compute, lines 78-106).
\* fault names the call that raises in this iteration: "streams" (reading the
\* part's streams or matching the audio, caught by the episode's handler),
\* "subtitle" (inside the inner try) or "none".  aborted tells whether the
\* exception left the loop over the parts.
PartChanges(episode, part, audio_streams, subtitle_streams, cur, refA, refS, fault) ==
    LET current_audio_stream == SelectedStream(audio_streams, cur.audio)
        current_subtitle_stream == SelectedStream(subtitle_streams, cur.subtitle)
        matching_audio_stream == match_audio_stream(refA, audio_streams)
        matching_subtitle_stream == match_subtitle_stream(refS, refA, subtitle_streams)
        audio == AudioChanges(episode, part, current_audio_stream, matching_audio_stream)
    IN IF fault = "streams"
       THEN [changes |-> <<>>, aborted |-> TRUE, audio |-> 0, subtitle |-> 0]
       ELSE IF fault = "subtitle"
       THEN [changes |-> audio, aborted |-> FALSE,
             audio |-> matching_audio_stream.id, subtitle |-> 0]
       ELSE [changes |-> audio
                 \o SubtitleRemoval(episode, part, current_subtitle_stream,
                                    matching_subtitle_stream)
                 \o SubtitleChange(episode, part, current_audio_stream,
                                   matching_audio_stream, current_subtitle_stream,
                                   matching_subtitle_stream),
             aborted |-> FALSE,
             audio |-> matching_audio_stream.id,
             subtitle |-> matching_subtitle_stream.id]

-----------------------------------------------------------------------------
(* SpecPart: one TrackChanges, compute over one episode of one part *)

\* Longest stream list of a part.
MaxStreams == 2

NoTC == [exists |-> FALSE]
NoCall == [name |-> "none"]

\* The caller has not resolved the episodes to update yet.
Unresolved == <<[key |-> 0]>>

PartIdle ==
    /\ refAudio = NoStream /\ refSubtitle = NoStream
    /\ partAudio = <<>> /\ partSubs = <<>>
    /\ curAudio = 0 /\ curSub = 0 /\ selfRef = FALSE /\ outcome = Pending

ScopeIdle == show = <<>> /\ reference = 0 /\ scoped = Pending

TcIdle ==
    /\ selected = <<>> /\ tc = NoTC /\ episodes = Unresolved
    /\ op = NoCall /\ prev = NoCall

OrchIdle == userSelected = <<>> /\ userRef = <<>> /\ nou = NoTC /\ call = NoCall

AudioShapes == {<<2, "stereo">>, <<2, "5.1">>, <<6, "5.1">>}
AudioTitles == {NoneStr, "English", "French", "Director COMMENTARY"}

Audio(l, c, shape, t) ==
    [languageCode |-> l, codec |-> c, channels |-> shape[1],
     audioChannelLayout |-> shape[2], title |-> t]

\* Audio stream attributes: every English combination, and one French stream
\* per title (a stream of another language only takes part through its title).
EngAudio == {Audio("eng", c, sh, t) : c \in {"aac", "ac3"}, sh \in AudioShapes, t \in AudioTitles}
AudioDescrs == EngAudio \cup {Audio("fra", "aac", <<2, "stereo">>, t) : t \in AudioTitles}

Subtitle(l, f, h, c, t) ==
    [languageCode |-> l, forced |-> f, hearingImpaired |-> h, codec |-> c, title |-> t]

EngSubs ==
    {Subtitle("eng", f, h, "srt", t) : f \in BOOLEAN, h \in BOOLEAN, t \in {NoneStr, "English"}}
    \cup {Subtitle("eng", FALSE, FALSE, NoneStr, "English"),
          Subtitle("eng", FALSE, FALSE, "srt", "")}
SubDescrs == EngSubs \cup {Subtitle("fra", f, FALSE, "srt", NoneStr) : f \in BOOLEAN}

\* Stream ids: position in the part's list, subtitles after the audio streams.
WithIds(descrs, base) ==
    [i \in 1..Len(descrs) |-> [id |-> base + i] @@ descrs[i]]

\* A stream of another episode: its id is none of the part's.
Foreign(descr) == [id |-> 99] @@ descr

StreamLists(descrs, base) ==
    UNION {{WithIds(f, base) : f \in [1..n -> descrs]} : n \in 0..MaxStreams}

Ids(streams) == {streams[i].id : i \in 1..Len(streams)}

\* The audio side of the parts whose subtitle streams are enumerated:
\* [streams, selected id, reference audio stream].
AudioContexts ==
    LET english == [id |-> 1] @@ Audio("eng", "aac", <<2, "stereo">>, "English")
        comment == [id |-> 1] @@ Audio("eng", "aac", <<2, "stereo">>, "Director COMMENTARY")
        french  == Foreign(Audio("fra", "aac", <<2, "stereo">>, "English"))
        foreign == Foreign(Audio("eng", "aac", <<2, "stereo">>, "English"))
        twin    == [id |-> 2] @@ Audio("eng", "aac", <<2, "stereo">>, "English")
    IN {[streams |-> <<english>>, cur |-> 1, ref |-> foreign],
        [streams |-> <<english, twin>>, cur |-> 2, ref |-> foreign],
        [streams |-> <<comment>>, cur |-> 1, ref |-> foreign],
        [streams |-> <<english>>, cur |-> 1, ref |-> french],
        [streams |-> <<english>>, cur |-> 0, ref |-> NoStream]}

\* The reference is a stream of another episode, or nothing is selected there.
InitForeignAudio ==
    /\ partAudio \in StreamLists(AudioDescrs, 0)
    /\ curAudio \in {0} \cup Ids(partAudio)
    /\ partSubs = <<>> /\ curSub = 0
    /\ refAudio \in {NoStream} \cup {Foreign(d) : d \in EngAudio}
    /\ refSubtitle = NoStream
    /\ selfRef = FALSE

InitForeignSubtitle ==
    /\ \E c \in AudioContexts :
          partAudio = c.streams /\ curAudio = c.cur /\ refAudio = c.ref
    /\ partSubs \in StreamLists(SubDescrs, 10)
    /\ curSub \in {0} \cup Ids(partSubs)
    /\ refSubtitle \in {NoStream} \cup {Foreign(d) : d \in EngSubs}
    /\ selfRef = FALSE

\* The target part is the part the reference selection was read from.
InitSelfAudio ==
    /\ partAudio \in StreamLists(AudioDescrs, 0)
    /\ curAudio \in {0} \cup Ids(partAudio)
    /\ partSubs = <<>> /\ curSub = 0
    /\ refAudio = SelectedStream(partAudio, curAudio)
    /\ refSubtitle = NoStream
    /\ selfRef = TRUE

InitSelfSubtitle ==
    /\ \E c \in AudioContexts : partAudio = c.streams /\ curAudio = c.cur
    /\ partSubs \in StreamLists(SubDescrs, 10)
    /\ curSub \in {0} \cup Ids(partSubs)
    /\ refAudio = SelectedStream(partAudio, curAudio)
    /\ refSubtitle = SelectedStream(partSubs, curSub)
    /\ selfRef = TRUE

InitPart ==
    /\ \/ InitForeignAudio
       \/ InitForeignSubtitle
       \/ InitSelfAudio
       \/ InitSelfSubtitle
    /\ outcome = Pending
    /\ ScopeIdle /\ TcIdle /\ OrchIdle

\* compute([episode]) for an episode of one part.
ComputePart ==
    /\ outcome = Pending
    /\ LET r == PartChanges(1, 1, partAudio, partSubs,
                            [audio |-> curAudio, subtitle |-> curSub],
                            refAudio, refSubtitle, "none")
       IN outcome' = [state |-> "computed", audio |-> r.audio,
                      subtitle |-> r.subtitle, changes |-> r.changes]
    /\ UNCHANGED <<refAudio, refSubtitle, partAudio, partSubs, curAudio, curSub, selfRef>>
    /\ UNCHANGED <<scopeVars, tcVars, orchVars>>

NextPart == ComputePart

SpecPart == InitPart /\ [][NextPart]_vars

-----------------------------------------------------------------------------
(* Claims about the matchers (SpecPart) *)

Computed == outcome # Pending

RefIsCommentary == refAudio.title # NoneStr /\ ContainsCommentary(Lower(refAudio.title))

\* Same-language audio streams of the part whose title does not contain
\* "commentary", a stream without a title included.
EligibleAudio ==
    {partAudio[i].id : i \in {j \in 1..Len(partAudio) :
        /\ partAudio[j].languageCode = refAudio.languageCode
        /\ ~(partAudio[j].title # NoneStr /\ ContainsCommentary(Lower(partAudio[j].title)))}}

\* C1: with a reference audio stream whose title does not contain "commentary"
\* (a reference without a title included), the only same-language candidates
\* removed are those whose title contains "commentary": the matcher returns one
\* of the others, and returns none only if there is no other.
C1_CommentarySplit ==
    (Computed /\ refAudio # NoStream /\ ~RefIsCommentary) =>
        /\ (outcome.audio = 0) <=> (EligibleAudio = {})
        /\ outcome.audio # 0 => outcome.audio \in EligibleAudio

\* The case of C1's example: a reference without a title and two same-language
\* streams without a title; the code returns none.
C1_ExampleReached ==
    /\ Computed
    /\ refAudio = Foreign(Audio("eng", "aac", <<6, "5.1">>, NoneStr))
    /\ partAudio = <<[id |-> 1] @@ Audio("eng", "ac3", <<6, "5.1">>, NoneStr),
                     [id |-> 2] @@ Audio("eng", "aac", <<2, "5.1">>, NoneStr)>>
    /\ outcome.audio = 0

\* The candidate at position i has a maximal score and is the first with it.
FirstMaximal(scores, i) ==
    /\ \A j \in 1..Len(scores) : scores[j] <= scores[i]
    /\ \A j \in 1..(i - 1) : scores[j] < scores[i]

AudioCands == AudioCandidates(refAudio, partAudio)
AudioCandScores ==
    [i \in 1..Len(AudioCands) |-> AudioScore(refAudio, AudioCands[i], Ambiguous(partAudio))]

SubCands ==
    LET SameLanguage(s) == s.languageCode = refSubtitle.languageCode
    IN SelectSeq(partSubs, SameLanguage)
SubCandScores == [i \in 1..Len(SubCands) |-> SubtitleScore(refSubtitle, SubCands[i])]

ForcedCands ==
    LET Forced(s) == s.languageCode = refAudio.languageCode /\ s.forced
    IN SelectSeq(partSubs, Forced)

\* C8: when two or more candidates remain after filtering, each matcher returns
\* a candidate of maximal score, the earliest in the part's stream order among
\* those of that score (with no reference subtitle nothing is scored and the
\* first forced candidate is returned).
C8_TieBreak ==
    Computed =>
        /\ (refAudio # NoStream /\ Len(AudioCands) >= 2) =>
              \E i \in 1..Len(AudioCands) :
                  AudioCands[i].id = outcome.audio /\ FirstMaximal(AudioCandScores, i)
        /\ (refSubtitle # NoStream /\ Len(SubCands) >= 2) =>
              \E i \in 1..Len(SubCands) :
                  SubCands[i].id = outcome.subtitle /\ FirstMaximal(SubCandScores, i)
        /\ (refSubtitle = NoStream /\ refAudio # NoStream /\ Len(ForcedCands) >= 2) =>
              outcome.subtitle = ForcedCands[1].id

\* Both matchers have resolved a tie at the maximal score to the earlier stream.
C8_Witness ==
    /\ Computed
    /\ refAudio # NoStream /\ Len(AudioCands) = 2
    /\ AudioCandScores[1] = AudioCandScores[2] /\ outcome.audio = AudioCands[1].id
    /\ refSubtitle # NoStream /\ Len(SubCands) = 2
    /\ SubCandScores[1] = SubCandScores[2] /\ outcome.subtitle = SubCands[1].id

AudioChangesOn == {i \in 1..Len(outcome.changes) : outcome.changes[i].stream_type = "audio"}
SubtitleChangesOn == {i \in 1..Len(outcome.changes) : outcome.changes[i].stream_type = "subtitle"}

AllAudioTitled == \A i \in 1..Len(partAudio) : partAudio[i].title # NoneStr

\* C10 as stated, on the parts whose audio streams all have a title (where the
\* title-less candidates of C1 play no part): on the reference's own part both
\* matchers return the reference streams and compute records no Change.
C10_SelfMatch ==
    (Computed /\ selfRef /\ AllAudioTitled) =>
        /\ outcome.audio = refAudio.id
        /\ outcome.subtitle = refSubtitle.id
        /\ outcome.changes = <<>>

AudioTitleUnique ==
    /\ refAudio # NoStream /\ refAudio.title # NoneStr
    /\ \A i \in 1..Len(partAudio) :
          (partAudio[i].languageCode = refAudio.languageCode /\ partAudio[i].id # refAudio.id)
              => partAudio[i].title # refAudio.title

SubtitleTitleUnique ==
    /\ refSubtitle # NoStream /\ Truthy(refSubtitle.title)
    /\ \A i \in 1..Len(partSubs) :
          (partSubs[i].languageCode = refSubtitle.languageCode /\ partSubs[i].id # refSubtitle.id)
              => partSubs[i].title # refSubtitle.title

\* C10 amended: on the reference's own part the audio matcher returns the
\* reference audio stream when it has a title no other same-language audio
\* stream of the part has, and the subtitle matcher returns the reference
\* subtitle stream when it has a non-empty title no other same-language subtitle
\* stream of the part has; compute then records no Change of that kind.
C10_SelfMatchUniqueTitle ==
    (Computed /\ selfRef) =>
        /\ AudioTitleUnique => (outcome.audio = refAudio.id /\ AudioChangesOn = {})
        /\ SubtitleTitleUnique =>
              (outcome.subtitle = refSubtitle.id /\ SubtitleChangesOn = {})

\* The reference subtitle is matched to itself behind another stream of its
\* language, and the reference audio to itself.
C10_Witness ==
    /\ Computed /\ selfRef
    /\ AudioTitleUnique /\ SubtitleTitleUnique
    /\ Len(SubCands) = 2 /\ SubCands[2].id = refSubtitle.id
    /\ outcome.subtitle = refSubtitle.id /\ outcome.audio = refAudio.id
    /\ outcome.changes = <<>>

-----------------------------------------------------------------------------
(* TrackChanges.get_episodes_to_update and SpecScope *)

\* Off-by-one variant: an episode counts as after itself.
is_episode_at_or_after(ref, episode) ==
    \/ ref.seasonNumber < episode.seasonNumber
    \/ /\ ref.seasonNumber = episode.seasonNumber
       /\ ref.episodeNumber <= episode.episodeNumber

is_episode_after(ref, episode) ==
    \/ ref.seasonNumber < episode.seasonNumber
    \/ /\ ref.seasonNumber = episode.seasonNumber
       /\ ref.episodeNumber < episode.episodeNumber

\* reference.season().episodes(): the show's episodes of the reference's season.
SeasonEpisodes(all, ref) ==
    LET InSeason(e) == e.seasonNumber = ref.seasonNumber
    IN SelectSeq(all, InSeason)

get_episodes_to_update(all, ref, update_level, update_strategy) ==
    LET After(e) == is_episode_after(ref, e)
        level == IF update_level = "show" THEN all ELSE SeasonEpisodes(all, ref)
    IN IF update_strategy = "next" THEN SelectSeq(level, After) ELSE level

\* Longest episode list of a show, and the largest season and episode numbers.
MaxEpisodes == 3
MaxSeason == 2
MaxNumber == 3

Levels == {"show", "season"}
Strategies == {"all", "next"}

EpisodeNumbers ==
    {[seasonNumber |-> sn, episodeNumber |-> en] : sn \in 1..MaxSeason, en \in 1..MaxNumber}

Distinct(f) == \A i, j \in DOMAIN f : i # j => f[i] # f[j]

InitScope ==
    /\ \E n \in 1..MaxEpisodes :
          show \in {f \in [1..n -> EpisodeNumbers] : Distinct(f)}
    /\ reference \in {show[i] : i \in 1..Len(show)}
    /\ scoped = Pending
    /\ PartIdle /\ TcIdle /\ OrchIdle

GetEpisodesToUpdate ==
    /\ \E update_level \in Levels, update_strategy \in Strategies :
          scoped' = [state |-> "returned", level |-> update_level,
                     strategy |-> update_strategy,
                     episodes |-> get_episodes_to_update(show, reference,
                                                         update_level, update_strategy)]
    /\ UNCHANGED <<show, reference>>
    /\ UNCHANGED <<partVars, tcVars, orchVars>>

NextScope == GetEpisodesToUpdate

SpecScope == InitScope /\ [][NextScope]_vars

\* Position of an episode in the order of season and episode numbers.
Rank(e) == e.seasonNumber * (MaxNumber + 2) + e.episodeNumber

\* The positions of the show's list that are in the scope of the level.
InLevel(i, level) ==
    level = "show" \/ show[i].seasonNumber = reference.seasonNumber

\* The sub-list of the show at an increasing sequence of positions.
IsSubListAt(list, pos) ==
    /\ Len(pos) = Len(list)
    /\ \A k \in 1..Len(pos) : list[k] = show[pos[k]]
    /\ \A k \in 1..(Len(pos) - 1) : pos[k] < pos[k + 1]

\* The positions wanted, in increasing order.
RECURSIVE Ascending(_, _)
Ascending(wanted, i) ==
    IF i > Len(show) THEN <<>>
    ELSE (IF i \in wanted THEN <<i>> ELSE <<>>) \o Ascending(wanted, i + 1)

\* C7: with strategy next the result holds exactly the episodes of the level
\* that are strictly after the reference in the order of (season, episode), in
\* the order of the show's list; never the reference or an episode at or
\* before it.
C7_NextStrictlyAfter ==
    (scoped # Pending /\ scoped.strategy = "next") =>
        LET wanted == {i \in 1..Len(show) :
                          InLevel(i, scoped.level) /\ Rank(reference) < Rank(show[i])}
        IN /\ IsSubListAt(scoped.episodes, Ascending(wanted, 1))
           /\ \A k \in 1..Len(scoped.episodes) :
                 /\ scoped.episodes[k] # reference
                 /\ Rank(scoped.episodes[k]) > Rank(reference)

\* A season-level result that drops the reference, an earlier episode of its
\* season and a later season, and keeps a later episode of the season.
C7_Witness ==
    /\ scoped # Pending /\ scoped.strategy = "next" /\ scoped.level = "season"
    /\ Len(show) = MaxEpisodes
    /\ Len(scoped.episodes) = 1
    /\ \E i \in 1..Len(show) : show[i].seasonNumber > reference.seasonNumber

\* With strategy next the result may be empty.
C7_EmptyReached ==
    scoped # Pending /\ scoped.strategy = "next" /\ scoped.episodes = <<>>

-----------------------------------------------------------------------------
(* The library of the server: one show, three episodes, four parts *)

Library ==
    <<[key |-> 1, seasonNumber |-> 1, episodeNumber |-> 1, parts |-> <<1>>],
      [key |-> 2, seasonNumber |-> 1, episodeNumber |-> 2, parts |-> <<2, 3>>],
      [key |-> 3, seasonNumber |-> 2, episodeNumber |-> 1, parts |-> <<4>>]>>

Parts == {1, 2, 3, 4}

A(id, l, c, shape, t) == [id |-> id] @@ Audio(l, c, shape, t)
S(id, l, f, h, c, t) == [id |-> id] @@ Subtitle(l, f, h, c, t)

PartAudio(p) ==
    CASE p = 1 -> <<A(11, "eng", "aac", <<2, "stereo">>, "English"),
                    A(12, "eng", "aac", <<2, "stereo">>, "Commentary")>>
      [] p = 2 -> <<A(21, "eng", "ac3", <<6, "5.1">>, "English"),
                    A(22, "eng", "aac", <<2, "stereo">>, "Commentary")>>
      [] p = 3 -> <<A(31, "eng", "aac", <<2, "stereo">>, "English"),
                    A(32, "fra", "aac", <<2, "stereo">>, "French")>>
      [] p = 4 -> <<A(41, "eng", "aac", <<2, "stereo">>, "Director COMMENTARY")>>

PartSubs(p) ==
    CASE p = 1 -> <<S(15, "eng", FALSE, FALSE, "srt", "English"),
                    S(16, "eng", TRUE, FALSE, "srt", NoneStr)>>
      [] p = 2 -> <<S(25, "eng", FALSE, FALSE, "srt", "English")>>
      [] p = 3 -> <<S(35, "eng", TRUE, FALSE, "srt", NoneStr)>>
      [] p = 4 -> <<S(45, "eng", FALSE, FALSE, "srt", "English"),
                    S(46, "fra", FALSE, FALSE, "srt", NoneStr)>>

EpisodeByKey(k) == Library[CHOOSE i \in 1..Len(Library) : Library[i].key = k]

\* No injected failure.
NoFault == [episode |-> 0, part |-> 0, stage |-> "none"]

\* The calls that can raise while compute handles the episodes eps: the
\* reload of an episode, the reading of a part's streams (with the audio
\* match), and the subtitle match of a part.
Faults(eps) ==
    {NoFault}
    \cup {[episode |-> eps[i].key, part |-> 0, stage |-> "reload"] : i \in 1..Len(eps)}
    \cup UNION {{[episode |-> eps[i].key, part |-> eps[i].parts[j], stage |-> st] :
                    j \in 1..Len(eps[i].parts), st \in {"streams", "subtitle"}} :
                i \in 1..Len(eps)}

FaultAt(fault, episode, part) ==
    IF fault.episode = episode /\ fault.part = part THEN fault.stage ELSE "none"

\* _get_selected_streams(episode): the first selected stream of each kind over
\* the episode's parts.
RECURSIVE FirstSelected(_, _, _, _)
FirstSelected(parts, i, sel, kind) ==
    IF i > Len(parts) THEN NoStream
    ELSE LET p == parts[i]
             hit == IF kind = "audio" THEN SelectedStream(PartAudio(p), sel[p].audio)
                    ELSE SelectedStream(PartSubs(p), sel[p].subtitle)
         IN IF hit # NoStream THEN hit ELSE FirstSelected(parts, i + 1, sel, kind)

-----------------------------------------------------------------------------
(* TrackChanges.compute over a list of episodes *)

\* The loop over episode.iterParts(): an exception that leaves the inner try
\* ends the episode.
RECURSIVE PartsFrom(_, _, _, _, _, _)
PartsFrom(ep, i, sel, refA, refS, fault) ==
    IF i > Len(ep.parts) THEN <<>>
    ELSE LET p == ep.parts[i]
             r == PartChanges(ep.key, p, PartAudio(p), PartSubs(p), sel[p],
                              refA, refS, FaultAt(fault, ep.key, p))
         IN IF r.aborted THEN r.changes
            ELSE r.changes \o PartsFrom(ep, i + 1, sel, refA, refS, fault)

\* The body of the loop over the episodes (compute, lines 76-109).
EpisodeChanges(ep, sel, refA, refS, fault) ==
    IF fault.episode = ep.key /\ fault.stage = "reload" THEN <<>>
    ELSE PartsFrom(ep, 1, sel, refA, refS, fault)

\* The handler around the loop instead of inside it: an exception in one
\* episode ends the loop over the episodes.
RECURSIVE EpisodesFromStopAtFault(_, _, _, _, _, _)
EpisodesFromStopAtFault(eps, i, sel, refA, refS, fault) ==
    IF i > Len(eps) THEN <<>>
    ELSE IF fault.episode = eps[i].key THEN <<>>
    ELSE EpisodeChanges(eps[i], sel, refA, refS, fault)
            \o EpisodesFromStopAtFault(eps, i + 1, sel, refA, refS, fault)

RECURSIVE EpisodesFrom(_, _, _, _, _, _)
EpisodesFrom(eps, i, sel, refA, refS, fault) ==
    IF i > Len(eps) THEN <<>>
    ELSE EpisodeChanges(eps[i], sel, refA, refS, fault)
            \o EpisodesFrom(eps, i + 1, sel, refA, refS, fault)

\* No reset: compute appends to the list of the previous run.
KeptChanges(old) == old

\* self._changes = [] (compute, line 74).
ResetChanges(old) == <<>>

ComputeChanges(old, eps, sel, refA, refS, fault) ==
    ResetChanges(old) \o EpisodesFrom(eps, 1, sel, refA, refS, fault)

MinOf(set) == CHOOSE x \in set : \A y \in set : x <= y
MaxIn(set) == CHOOSE x \in set : \A y \in set : x >= y

\* TrackChanges._update_description: the numbers the title and the description
\* are rendered from.
update_description(eps, changes, refA, refS) ==
    IF Len(eps) = 0 THEN [title |-> "", description |-> ""]
    ELSE LET season_numbers == {eps[i].seasonNumber : i \in 1..Len(eps)}
             min_season_number == MinOf(season_numbers)
             max_season_number == MaxIn(season_numbers)
             min_episode_number ==
                 MinOf({eps[i].episodeNumber : i \in {j \in 1..Len(eps) :
                            eps[j].seasonNumber = min_season_number}})
             max_episode_number ==
                 MaxIn({eps[i].episodeNumber : i \in {j \in 1..Len(eps) :
                            eps[j].seasonNumber = max_season_number}})
             nb_updated == Cardinality({changes[i].episode : i \in 1..Len(changes)})
         IN [title |-> "Show",
             description |->
                 [audio |-> refA.id, subtitles |-> refS.id,
                  from |-> <<min_season_number, min_episode_number>>,
                  to |-> <<max_season_number, max_episode_number>>,
                  nb_updated |-> nb_updated, nb_total |-> Len(eps)]]

-----------------------------------------------------------------------------
(* TrackChanges.apply *)

\* An audio change that also clears the subtitle selection of the part.
ApplyChangeClearing(sel, ch) ==
    IF ch.stream_type = "audio"
    THEN [sel EXCEPT ![ch.part] = [audio |-> ch.stream, subtitle |-> 0]]
    ELSE [sel EXCEPT ![ch.part].subtitle = ch.stream]

\* setSelectedAudioStream / resetSelectedSubtitleStream / setSelectedSubtitleStream.
ApplyChange(sel, ch) ==
    IF ch.stream_type = "audio"
    THEN [sel EXCEPT ![ch.part].audio = ch.stream]
    ELSE IF ch.stream_type = "subtitle" /\ ch.stream = 0
    THEN [sel EXCEPT ![ch.part].subtitle = 0]
    ELSE [sel EXCEPT ![ch.part].subtitle = ch.stream]

\* The first n changes of the list, applied in order.
RECURSIVE ApplyChanges(_, _, _, _)
ApplyChanges(sel, changes, i, n) ==
    IF i > n THEN sel
    ELSE ApplyChanges(ApplyChange(sel, changes[i]), changes, i + 1, n)

-----------------------------------------------------------------------------
(* Spec: the life of a TrackChanges object over the library *)

Selections(p) ==
    [audio : {0} \cup Ids(PartAudio(p)), subtitle : {0} \cup Ids(PartSubs(p))]

\* The selection states that give part p one of the selections c[p].
SelectionStates(c) ==
    {[p \in Parts |-> t[p]] : t \in c[1] \X c[2] \X c[3] \X c[4]}

Init ==
    /\ selected \in SelectionStates([p \in Parts |-> Selections(p)])
    /\ tc = NoTC
    /\ episodes = Unresolved
    /\ op = NoCall
    /\ prev = NoCall
    /\ PartIdle /\ ScopeIdle /\ OrchIdle

\* What a later call remembers of the call before it.
Brief(c) ==
    IF c.name = "compute"
    THEN [name |-> "compute", episodes |-> c.episodes, changes |-> c.changes]
    ELSE IF c.name = "apply"
    THEN [name |-> "apply", raised |-> c.raised, applied |-> c.applied,
          cleared |-> c.cleared, follows |-> c.follows]
    ELSE [name |-> c.name]

\* TrackChanges(username, reference, event_type); one object per behaviour.
Construct ==
    /\ ~tc.exists
    /\ \E i \in 1..Len(Library) :
          LET ref == Library[i] IN
          /\ tc' = [exists |-> TRUE, username |-> "user", reference |-> ref.key,
                    audio_stream |-> FirstSelected(ref.parts, 1, selected, "audio"),
                    subtitle_stream |-> FirstSelected(ref.parts, 1, selected, "subtitle"),
                    changes |-> <<>>, computed |-> FALSE,
                    title |-> "", description |-> ""]
          /\ op' = [name |-> "construct", reference |-> ref.key]
    /\ prev' = Brief(op)
    /\ UNCHANGED <<selected, episodes>>
    /\ UNCHANGED <<partVars, scopeVars, orchVars>>

\* episodes = track_changes.get_episodes_to_update(update_level, update_strategy);
\* the caller resolves the scope once and passes the list to every compute.
GetEpisodes ==
    /\ tc.exists /\ episodes = Unresolved
    /\ \E update_level \in Levels, update_strategy \in Strategies :
          /\ episodes' = get_episodes_to_update(Library, EpisodeByKey(tc.reference),
                                                update_level, update_strategy)
          /\ op' = [name |-> "get_episodes_to_update", level |-> update_level,
                    strategy |-> update_strategy]
    /\ prev' = Brief(op)
    /\ UNCHANGED <<selected, tc>>
    /\ UNCHANGED <<partVars, scopeVars, orchVars>>

\* track_changes.compute(episodes), with one of the given failures injected.
ComputeWith(faults) ==
    /\ tc.exists /\ episodes # Unresolved
    /\ \E fault \in faults :
       \E changes \in {ComputeChanges(tc.changes, episodes, selected,
                                      tc.audio_stream, tc.subtitle_stream, fault)} :
          LET text == update_description(episodes, changes,
                                         tc.audio_stream, tc.subtitle_stream)
          IN /\ tc' = [tc EXCEPT !.changes = changes, !.computed = TRUE,
                                 !.title = text.title, !.description = text.description]
             /\ op' = [name |-> "compute", episodes |-> episodes, fault |-> fault,
                       changes |-> changes]
    /\ prev' = Brief(op)
    /\ UNCHANGED <<selected, episodes>>
    /\ UNCHANGED <<partVars, scopeVars, orchVars>>

\* A compute during which no server call fails.
Compute == ComputeWith({NoFault})

\* The first compute of the object, during which at most one server call fails.
ComputeFailing == tc.exists /\ ~tc.computed /\ ComputeWith(Faults(episodes))

\* track_changes.apply(); failAt = k > 0: the server call of the k-th change
\* raises, after the changes before it were applied.
Apply ==
    /\ tc.exists
    /\ \E failAt \in 0..Len(tc.changes) :
          LET n == IF failAt = 0 THEN Len(tc.changes) ELSE failAt - 1
          IN /\ selected' = ApplyChanges(selected, tc.changes, 1, n)
             /\ op' = [name |-> "apply", raised |-> failAt # 0, applied |-> n,
                       cleared |-> Cardinality({i \in 1..n : tc.changes[i].stream = 0}),
                       follows |-> op.name]
    /\ prev' = Brief(op)
    /\ UNCHANGED <<tc, episodes>>
    /\ UNCHANGED <<partVars, scopeVars, orchVars>>

Next ==
    \/ Construct
    \/ GetEpisodes
    \/ Compute
    \/ Apply

Spec == Init /\ [][Next]_vars

NextFault ==
    \/ Construct
    \/ GetEpisodes
    \/ ComputeFailing

SpecFault == Init /\ [][NextFault]_vars

-----------------------------------------------------------------------------
(* Claims about compute and apply (Spec, SpecFault) *)

ChangesOf(changes, p, kind) ==
    {i \in 1..Len(changes) : changes[i].part = p /\ changes[i].stream_type = kind}

PartsOf(eps) == UNION {{eps[i].parts[j] : j \in 1..Len(eps[i].parts)} : i \in 1..Len(eps)}

\* The part is in the state the suppression rule names: its selected audio
\* stream has a commentary title and the audio matcher finds nothing for it.
UnmatchedCommentary(p) ==
    LET current == SelectedStream(PartAudio(p), selected[p].audio)
    IN /\ current # NoStream
       /\ Truthy(current.title)
       /\ ContainsCommentary(Lower(current.title))
       /\ match_audio_stream(tc.audio_stream, PartAudio(p)) = NoStream

\* C2: compute records no subtitle Change for a part whose selected audio
\* stream has a commentary title and for which the audio matcher returns none.
C2_SubtitleSuppression ==
    op.name = "compute" =>
        \A p \in PartsOf(episodes) :
            UnmatchedCommentary(p) => ChangesOf(tc.changes, p, "subtitle") = {}

\* The part of C2 the code keeps: in that state no subtitle Change carrying a
\* matched stream is recorded.
C2_NoMatchedSubtitleChange ==
    op.name = "compute" =>
        \A p \in PartsOf(episodes) :
            UnmatchedCommentary(p) =>
                \A i \in ChangesOf(tc.changes, p, "subtitle") : tc.changes[i].stream = 0

\* The failing input of C2: part 4 plays its commentary track with subtitle 45
\* selected, the reference has audio 11 and no subtitle; the clearing Change is
\* recorded.
C2_ClearRecorded ==
    /\ op.name = "compute"
    /\ tc.audio_stream.id = 11 /\ tc.subtitle_stream = NoStream
    /\ selected[4] = [audio |-> 41, subtitle |-> 45]
    /\ 4 \in PartsOf(episodes)
    /\ \E i \in ChangesOf(tc.changes, 4, "subtitle") : tc.changes[i].stream = 0

HasEntry(p, kind, value) ==
    \E i \in ChangesOf(tc.changes, p, kind) : tc.changes[i].stream = value

\* C5: a selection changes only in apply, only for a (part, kind) that has an
\* entry in the change list, and to the value of that entry; so compute
\* changes none and apply on an empty list changes none.
C5_MutationFrame ==
    [][\A p \in Parts :
          /\ selected'[p].audio # selected[p].audio =>
                (op'.name = "apply" /\ HasEntry(p, "audio", selected'[p].audio))
          /\ selected'[p].subtitle # selected[p].subtitle =>
                (op'.name = "apply" /\ HasEntry(p, "subtitle", selected'[p].subtitle))
      ]_vars

\* An apply that set an audio stream and cleared a subtitle.
C5_Witness ==
    /\ op.name = "apply" /\ ~op.raised /\ op.applied >= 2 /\ op.cleared >= 1
    /\ \E i \in 1..Len(tc.changes) :
          /\ tc.changes[i].stream_type = "audio"
          /\ selected[tc.changes[i].part].audio = tc.changes[i].stream

EpisodeIndex(k) == CHOOSE i \in 1..Len(episodes) : episodes[i].key = k
PartIndex(k, p) ==
    CHOOSE j \in 1..Len(EpisodeByKey(k).parts) : EpisodeByKey(k).parts[j] = p
KindIndex(kind) == IF kind = "audio" THEN 1 ELSE 2

\* Position of a change in the order of episodes, parts and kinds.
Position(ch) ==
    (EpisodeIndex(ch.episode) * 10 + PartIndex(ch.episode, ch.part)) * 10
        + KindIndex(ch.stream_type)

\* C6: a compute right after a compute over the same episodes leaves the list
\* of the first one (no accumulation), ordered by episode, part, and audio
\* before subtitle.
C6_ComputeRepeatable ==
    (op.name = "compute" /\ prev.name = "compute" /\ prev.episodes = op.episodes) =>
        /\ tc.changes = prev.changes
        /\ \A i, j \in 1..Len(tc.changes) :
              i < j => Position(tc.changes[i]) < Position(tc.changes[j])

\* A repeated compute over several episodes that recorded audio and subtitle changes.
C6_Witness ==
    /\ op.name = "compute" /\ prev.name = "compute"
    /\ Len(tc.changes) >= 3
    /\ Cardinality({tc.changes[i].episode : i \in 1..Len(tc.changes)}) >= 2

\* C9: a compute right after a compute and a complete apply finds nothing
\* left to change.
C9_Convergence ==
    (/\ op.name = "compute"
     /\ prev.name = "apply" /\ ~prev.raised /\ prev.follows = "compute") =>
        tc.changes = <<>>

\* Suppressed parts among the episodes computed.
C9_Witness ==
    /\ op.name = "compute"
    /\ prev.name = "apply" /\ ~prev.raised /\ prev.follows = "compute"
    /\ prev.applied >= 2
    /\ \E p \in PartsOf(episodes) :
          /\ UnmatchedCommentary(p)
          /\ match_subtitle_stream(tc.subtitle_stream, tc.audio_stream, PartSubs(p)).id
                \notin {0, selected[p].subtitle}
    /\ tc.changes = <<>>

\* The list compute builds when nothing fails.
Baseline ==
    ComputeChanges(<<>>, episodes, selected, tc.audio_stream, tc.subtitle_stream, NoFault)

OfOtherEpisodes(changes) ==
    LET Keep(ch) == ch.episode # op.fault.episode IN SelectSeq(changes, Keep)

OfFailedEpisode(changes) ==
    LET Keep(ch) == ch.episode = op.fault.episode IN SelectSeq(changes, Keep)

\* C3 as stated: compute ends with the computed flag set, no Change of the
\* failed episode is in the list, and the other episodes contribute what they
\* contribute when nothing fails.
C3_FailedEpisodeSkipped ==
    (op.name = "compute" /\ op.fault # NoFault) =>
        /\ tc.computed
        /\ OfFailedEpisode(tc.changes) = <<>>
        /\ OfOtherEpisodes(tc.changes) = OfOtherEpisodes(Baseline)

\* What the failed episode still contributes: nothing after a failed reload;
\* the changes of the parts before the one whose streams could not be read;
\* everything but the subtitle change of the part whose subtitle match failed.
KeptOfFailedEpisode ==
    LET k == op.fault.episode
        at == PartIndex(k, op.fault.part)
        Keep(ch) ==
            /\ ch.episode = k
            /\ CASE op.fault.stage = "reload" -> FALSE
                 [] op.fault.stage = "streams" -> PartIndex(k, ch.part) < at
                 [] OTHER -> ~(ch.part = op.fault.part /\ ch.stream_type = "subtitle")
    IN SelectSeq(Baseline, Keep)

\* C3 amended: compute ends with the computed flag set, the other episodes
\* contribute what they contribute when nothing fails, and of the failed
\* episode the changes recorded before the failure stay in the list.
C3_FailureKeepsEarlierChanges ==
    (op.name = "compute" /\ op.fault # NoFault) =>
        /\ tc.computed
        /\ OfOtherEpisodes(tc.changes) = OfOtherEpisodes(Baseline)
        /\ OfFailedEpisode(tc.changes) = KeptOfFailedEpisode

\* The streams of the second part of episode 2 could not be read: the change
\* of its first part stays, and episode 3 after it contributes.
C3_Witness ==
    /\ op.name = "compute"
    /\ op.fault = [episode |-> 2, part |-> 3, stage |-> "streams"]
    /\ \E i \in 1..Len(tc.changes) : tc.changes[i].part = 2
    /\ \E i \in 1..Len(tc.changes) : tc.changes[i].episode = 3
    /\ Len(Baseline) > Len(tc.changes)

-----------------------------------------------------------------------------
(* SpecOrch: NewOrUpdatedTrackChanges.change_track_for_user over two users *)

\* Calls of change_track_for_user on one NewOrUpdatedTrackChanges.
MaxCalls == 2

Users == {"alice", "bob"}

\* The new or updated episode of the event.
Target == Library[2]

\* Each user's reference episode.
ReferenceOf(u) == IF u = "alice" THEN Library[1] ELSE Library[3]

\* A user's selections before the event: anything on the parts of the
\* reference episode; on the new episode an audio stream and, on its second
\* part, possibly the forced subtitle; nothing elsewhere.
UserSelections(u) ==
    SelectionStates([p \in Parts |->
        IF p = 2 THEN {x \in Selections(p) : x.audio # 0 /\ x.subtitle = 0}
        ELSE IF p = 3 THEN {x \in Selections(p) : x.audio = 31}
        ELSE IF \E j \in 1..Len(ReferenceOf(u).parts) : ReferenceOf(u).parts[j] = p
        THEN Selections(p)
        ELSE {[audio |-> 0, subtitle |-> 0]}])

InitOrch ==
    /\ \E a \in UserSelections("alice"), b \in UserSelections("bob") :
          userSelected = [u \in Users |-> IF u = "alice" THEN a ELSE b]
    /\ userRef = [u \in Users |-> ReferenceOf(u).key]
    /\ \E new \in BOOLEAN :
          nou = [episode |-> 0, new |-> new, track_changes |-> <<>>,
                 title |-> "", description |-> ""]
    /\ call = [name |-> "none", n |-> 0]
    /\ PartIdle /\ ScopeIdle /\ TcIdle

\* The server calls that can raise while one user is handled: reading the
\* reference selection (the constructor), reloading the episode (compute), and
\* the k-th change (apply).
UserFaults(changes) ==
    {[stage |-> "none", at |-> 0], [stage |-> "reference", at |-> 0],
     [stage |-> "reload", at |-> 0]}
    \cup {[stage |-> "apply", at |-> k] : k \in 1..Len(changes)}

\* NewOrUpdatedTrackChanges._update_description
orch_update_description(o) ==
    IF Len(o.track_changes) = 0
    THEN [o EXCEPT !.title = "", !.description = "", !.episode = 0]
    ELSE LET event_str == IF o.new THEN "New" ELSE "Updated"
         IN [o EXCEPT !.title = <<event_str, o.episode>>,
                      !.description = <<o.episode, event_str, "Updated for all users">>]

\* NewOrUpdatedTrackChanges.has_changes
has_changes(o) ==
    Cardinality({i \in 1..Len(o.track_changes) : Len(o.track_changes[i].changes) > 0}) > 0

\* change_track_for_user(username, reference, episode)
ChangeTrackForUser ==
    /\ call.n < MaxCalls
    /\ \E u \in Users :
          LET sel == userSelected[u]
              ref == EpisodeByKey(userRef[u])
              refA == FirstSelected(ref.parts, 1, sel, "audio")
              refS == FirstSelected(ref.parts, 1, sel, "subtitle")
              clean == ComputeChanges(<<>>, <<Target>>, sel, refA, refS, NoFault)
          IN \E fault \in UserFaults(clean) :
                LET computeFault == IF fault.stage = "reload"
                                    THEN [episode |-> Target.key, part |-> 0, stage |-> "reload"]
                                    ELSE NoFault
                    changes == ComputeChanges(<<>>, <<Target>>, sel, refA, refS, computeFault)
                    text == update_description(<<Target>>, changes, refA, refS)
                    track_changes ==
                        [exists |-> TRUE, username |-> u, reference |-> ref.key,
                         audio_stream |-> refA, subtitle_stream |-> refS,
                         changes |-> changes, computed |-> TRUE,
                         title |-> text.title, description |-> text.description]
                    entered == [nou EXCEPT !.episode = Target.key]
                IN CASE fault.stage = "reference" ->
                          \* TrackChanges.__init__ raises: nothing but _episode is set.
                          /\ nou' = entered
                          /\ userSelected' = userSelected
                          /\ call' = [name |-> "change_track_for_user", username |-> u,
                                      fault |-> fault, raised |-> TRUE, n |-> call.n + 1]
                     [] fault.stage = "apply" ->
                          \* apply raises at its k-th change: the changes before it
                          \* are made, the TrackChanges is not appended.
                          /\ nou' = entered
                          /\ userSelected' = [userSelected EXCEPT
                                 ![u] = ApplyChanges(sel, changes, 1, fault.at - 1)]
                          /\ call' = [name |-> "change_track_for_user", username |-> u,
                                      fault |-> fault, raised |-> TRUE, n |-> call.n + 1]
                     [] OTHER ->
                          /\ nou' = orch_update_description(
                                 [entered EXCEPT !.track_changes = Append(@, track_changes)])
                          /\ userSelected' = [userSelected EXCEPT
                                 ![u] = ApplyChanges(sel, changes, 1, Len(changes))]
                          /\ call' = [name |-> "change_track_for_user", username |-> u,
                                      fault |-> fault, raised |-> FALSE, n |-> call.n + 1]
    /\ UNCHANGED userRef
    /\ UNCHANGED <<partVars, scopeVars, tcVars>>

NextOrch == ChangeTrackForUser

SpecOrch == InitOrch /\ [][NextOrch]_vars

Recorded == {nou.track_changes[i].username : i \in 1..Len(nou.track_changes)}

\* C4: a failure while one user is handled never reaches the caller as an
\* exception, and the user's TrackChanges is computed, applied and recorded in
\* the aggregate like those of the other users.
C4_UserIsolation ==
    call.name = "change_track_for_user" =>
        /\ ~call.raised
        /\ call.username \in Recorded
        /\ Len(nou.track_changes) = call.n

\* The part of C4 the code keeps: a failed reload inside compute stays inside,
\* and the user is recorded with an empty change list.
C4_ComputeFailureIsolated ==
    (call.name = "change_track_for_user" /\ call.fault.stage = "reload") =>
        /\ ~call.raised
        /\ nou.track_changes[Len(nou.track_changes)].username = call.username
        /\ nou.track_changes[Len(nou.track_changes)].changes = <<>>

\* The failing input of C4: the first change of apply raises for the second
\* user handled, after the first user was recorded.
C4_ApplyRaised ==
    /\ call.name = "change_track_for_user" /\ call.n = 2
    /\ call.fault = [stage |-> "apply", at |-> 1] /\ call.raised
    /\ Len(nou.track_changes) = 1 /\ call.username \notin Recorded

====
